---- MODULE Spec2Model ----
(***************************************************************************)
(* Verification model of the sports-betting decision engine: the           *)
(* RiskEngine (risk_engine.py), the strategy functions (strategy.py),      *)
(* the execution layer (execution.py) and the poll loop of runner.main.    *)
(*                                                                         *)
(* Python floats are modelled as exact rationals <<n, d>> with d > 0 in    *)
(* lowest terms; dollars are the money unit.  Where the rounding of a      *)
(* float operation decides an outcome, the operation is modelled with      *)
(* IEEE-754 round-to-nearest-even at MantissaBits significant bits.        *)
(***************************************************************************)
EXTENDS Integers, Sequences, FiniteSets, TLC

(***************************************************************************)
(* Exact rational arithmetic standing for the float operators.             *)
(***************************************************************************)
Abs(x) == IF x < 0 THEN -x ELSE x

RECURSIVE GCD(_, _)
GCD(a, b) == IF b = 0 THEN a ELSE GCD(b, a % b)

Rat(n, d) == LET g == GCD(Abs(n), d) IN <<n \div g, d \div g>>

RZero == <<0, 1>>

ROne == <<1, 1>>

RAdd(a, b) == Rat(a[1] * b[2] + b[1] * a[2], a[2] * b[2])

RSub(a, b) == Rat(a[1] * b[2] - b[1] * a[2], a[2] * b[2])

RMul(a, b) == Rat(a[1] * b[1], a[2] * b[2])

RDiv(a, b) ==
    IF b[1] > 0 THEN Rat(a[1] * b[2], a[2] * b[1])
                ELSE Rat(-(a[1] * b[2]), -(a[2] * b[1]))

RLe(a, b) == a[1] * b[2] <= b[1] * a[2]

RLt(a, b) == a[1] * b[2] < b[1] * a[2]

RMin(a, b) == IF RLt(b, a) THEN b ELSE a

RMax(a, b) == IF RLt(a, b) THEN b ELSE a

(***************************************************************************)
(* Configuration (config.py defaults).                                     *)
(***************************************************************************)
max_per_bet_pct == Rat(2, 100)

max_per_game_pct == Rat(5, 100)

max_daily_risk_pct == Rat(10, 100)

max_per_team_pct == Rat(8, 100)

edge_threshold == Rat(7, 100)

kelly_factor == Rat(25, 100)

slippage_tolerance == Rat(2, 100)

min_market_volume == 2000

max_spread == Rat(8, 100)

min_time_to_start_minutes == 5

(***************************************************************************)
(* Bounds and input catalogues.                                            *)
(***************************************************************************)
MaxPositions == 2

GameIds == {"g1", "g2"}

Lakers == <<"L", "a", "k">>

Warriors == <<"W", "a", "r">>

Teams == {Lakers, Warriors}

Leagues == {"NBA", "NCAAB"}

\* Position(market_id, game_id, team, league, quantity, average_price, max_loss)
Position(mid, g, t, l, q, avg, ml) ==
    [market_id |-> mid, game_id |-> g, team |-> t, league |-> l,
     quantity |-> q, average_price |-> avg, max_loss |-> ml]

PositionCatalogue ==
    { Position("KX1", "g1", Lakers, "NBA", 10, Rat(30, 100), Rat(3, 1)),
      Position("KX2", "g1", Warriors, "NBA", 10, Rat(50, 100), RZero),
      Position("KX3", "g2", Lakers, "NCAAB", 4, Rat(50, 100), Rat(6, 1)) }

RECURSIVE SeqsUpTo(_, _)
SeqsUpTo(S, n) ==
    IF n = 0 THEN {<<>>}
    ELSE LET shorter == SeqsUpTo(S, n - 1)
         IN shorter \cup {Append(s, x) : s \in {t \in shorter : Len(t) = n - 1}, x \in S}

PositionLists == SeqsUpTo(PositionCatalogue, MaxPositions)

Bankrolls == {RZero, Rat(100, 1)}

Stakes == {RZero, Rat(2, 1), Rat(3, 1)}

(***************************************************************************)
(* RiskEngine (risk_engine.py).  The engine is a record `self`; the three  *)
(* exposure maps are defaultdict(float): functions whose DOMAIN is the     *)
(* key set, and reading a missing key inserts it with 0.0.                 *)
(***************************************************************************)
EmptyMap == [k \in {} |-> RZero]

\* defaultdict.__getitem__ on a missing key stores the default
Touch(m, k) == IF k \in DOMAIN m THEN m ELSE m @@ (k :> RZero)

\* m[k] += v on a defaultdict(float)
Bump(m, k, v) == [Touch(m, k) EXCEPT ![k] = RAdd(@, v)]

\* value of a key as a reader sees it (0.0 when absent)
Lookup(m, k) == IF k \in DOMAIN m THEN m[k] ELSE RZero

RiskEngine ==
    [bankroll |-> RZero, positions |-> <<>>,
     exposure_by_game |-> EmptyMap, exposure_by_team |-> EmptyMap,
     exposure_by_league |-> EmptyMap, total_daily_risk |-> RZero]

position_max_loss_cost_only(position) ==
    RMul(Rat(position.quantity, 1), position.average_price)

position_max_loss(position) ==
    IF RLt(RZero, position.max_loss)
    THEN position.max_loss
    ELSE RMul(Rat(position.quantity, 1), position.average_price)

RECURSIVE accumulate_exposure(_, _, _)
accumulate_exposure(self, positions, i) ==
    IF i > Len(positions) THEN self
    ELSE LET position == positions[i]
             max_loss == position_max_loss(position)
         IN accumulate_exposure(
                [self EXCEPT
                    !.total_daily_risk = RAdd(@, max_loss),
                    !.exposure_by_game = Bump(@, position.game_id, max_loss),
                    !.exposure_by_team = Bump(@, position.team, max_loss),
                    !.exposure_by_league = Bump(@, position.league, max_loss)],
                positions, i + 1)

reset_exposure(self) ==
    [self EXCEPT !.exposure_by_game = EmptyMap,
                 !.exposure_by_team = EmptyMap,
                 !.exposure_by_league = EmptyMap,
                 !.total_daily_risk = RZero]

update_from_positions_no_reset(self, positions, bankroll) ==
    accumulate_exposure(
        [self EXCEPT !.bankroll = bankroll, !.positions = positions],
        positions, 1)

update_from_positions_keep_total(self, positions, bankroll) ==
    accumulate_exposure(
        [self EXCEPT !.bankroll = bankroll, !.positions = positions,
                     !.exposure_by_game = EmptyMap,
                     !.exposure_by_team = EmptyMap,
                     !.exposure_by_league = EmptyMap],
        positions, 1)

update_from_positions(self, positions, bankroll) ==
    accumulate_exposure(
        reset_exposure([self EXCEPT !.bankroll = bankroll, !.positions = positions]),
        positions, 1)

can_take_trade_game_ge(self, stake, game_id, team, league) ==
    LET new_daily_risk == RAdd(self.total_daily_risk, stake)
        max_daily_risk == RMul(max_daily_risk_pct, self.bankroll)
        s1 == [self EXCEPT !.exposure_by_game = Touch(@, game_id)]
        new_game_exposure == RAdd(s1.exposure_by_game[game_id], stake)
        max_game_exposure == RMul(max_per_game_pct, self.bankroll)
        s2 == [s1 EXCEPT !.exposure_by_team = Touch(@, team)]
        new_team_exposure == RAdd(s2.exposure_by_team[team], stake)
        max_team_exposure == RMul(max_per_team_pct, self.bankroll)
    IN  IF RLt(max_daily_risk, new_daily_risk) THEN [ret |-> FALSE, self |-> self]
        ELSE IF RLe(max_game_exposure, new_game_exposure) THEN [ret |-> FALSE, self |-> s1]
        ELSE IF RLt(max_team_exposure, new_team_exposure) THEN [ret |-> FALSE, self |-> s2]
        ELSE [ret |-> TRUE, self |-> s2]

\* returns [ret, self]: the verdict and the engine after the defaultdict reads
can_take_trade(self, stake, game_id, team, league) ==
    LET new_daily_risk == RAdd(self.total_daily_risk, stake)
        max_daily_risk == RMul(max_daily_risk_pct, self.bankroll)
        s1 == [self EXCEPT !.exposure_by_game = Touch(@, game_id)]
        new_game_exposure == RAdd(s1.exposure_by_game[game_id], stake)
        max_game_exposure == RMul(max_per_game_pct, self.bankroll)
        s2 == [s1 EXCEPT !.exposure_by_team = Touch(@, team)]
        new_team_exposure == RAdd(s2.exposure_by_team[team], stake)
        max_team_exposure == RMul(max_per_team_pct, self.bankroll)
    IN  IF RLt(max_daily_risk, new_daily_risk) THEN [ret |-> FALSE, self |-> self]
        ELSE IF RLt(max_game_exposure, new_game_exposure) THEN [ret |-> FALSE, self |-> s1]
        ELSE IF RLt(max_team_exposure, new_team_exposure) THEN [ret |-> FALSE, self |-> s2]
        ELSE [ret |-> TRUE, self |-> s2]

remaining_daily_risk(self) ==
    LET max_daily_risk == RMul(max_daily_risk_pct, self.bankroll)
    IN  RMax(RZero, RSub(max_daily_risk, self.total_daily_risk))

cap_stake_skip_team(self, raw_stake, game_id, team, league) ==
    LET max_per_bet == RMul(max_per_bet_pct, self.bankroll)
        stake1 == RMin(raw_stake, max_per_bet)
        remaining_daily == remaining_daily_risk(self)
        stake2 == RMin(stake1, remaining_daily)
        max_game == RMul(max_per_game_pct, self.bankroll)
        s1 == [self EXCEPT !.exposure_by_game = Touch(@, game_id)]
        remaining_game == RMax(RZero, RSub(max_game, s1.exposure_by_game[game_id]))
        stake3 == RMin(stake2, remaining_game)
    IN  [ret |-> RMax(RZero, stake3), self |-> s1]

cap_stake_max_per_bet(self, raw_stake, game_id, team, league) ==
    LET max_per_bet == RMul(max_per_bet_pct, self.bankroll)
        stake1 == RMax(raw_stake, max_per_bet)
        remaining_daily == remaining_daily_risk(self)
        stake2 == RMin(stake1, remaining_daily)
        max_game == RMul(max_per_game_pct, self.bankroll)
        s1 == [self EXCEPT !.exposure_by_game = Touch(@, game_id)]
        remaining_game == RMax(RZero, RSub(max_game, s1.exposure_by_game[game_id]))
        stake3 == RMin(stake2, remaining_game)
        max_team == RMul(max_per_team_pct, self.bankroll)
        s2 == [s1 EXCEPT !.exposure_by_team = Touch(@, team)]
        remaining_team == RMax(RZero, RSub(max_team, s2.exposure_by_team[team]))
        stake4 == RMin(stake3, remaining_team)
    IN  [ret |-> RMax(RZero, stake4), self |-> s2]

cap_stake_league_capped(self, raw_stake, game_id, team, league) ==
    LET max_per_bet == RMul(max_per_bet_pct, self.bankroll)
        stake1 == RMin(raw_stake, max_per_bet)
        remaining_daily == remaining_daily_risk(self)
        stake2 == RMin(stake1, remaining_daily)
        max_game == RMul(max_per_game_pct, self.bankroll)
        s1 == [self EXCEPT !.exposure_by_game = Touch(@, game_id)]
        remaining_game == RMax(RZero, RSub(max_game, s1.exposure_by_game[game_id]))
        stake3 == RMin(stake2, remaining_game)
        max_team == RMul(max_per_team_pct, self.bankroll)
        s2 == [s1 EXCEPT !.exposure_by_team = Touch(@, team)]
        remaining_team == RMax(RZero, RSub(max_team, s2.exposure_by_team[team]))
        stake4 == RMin(stake3, remaining_team)
        remaining_league == RMax(RZero, RSub(max_team, Lookup(s2.exposure_by_league, league)))
        stake5 == RMin(stake4, remaining_league)
    IN  [ret |-> RMax(RZero, stake5), self |-> s2]

\* returns [ret, self]: the capped stake and the engine after the defaultdict reads
cap_stake(self, raw_stake, game_id, team, league) ==
    LET max_per_bet == RMul(max_per_bet_pct, self.bankroll)
        stake1 == RMin(raw_stake, max_per_bet)
        remaining_daily == remaining_daily_risk(self)
        stake2 == RMin(stake1, remaining_daily)
        max_game == RMul(max_per_game_pct, self.bankroll)
        s1 == [self EXCEPT !.exposure_by_game = Touch(@, game_id)]
        remaining_game == RMax(RZero, RSub(max_game, s1.exposure_by_game[game_id]))
        stake3 == RMin(stake2, remaining_game)
        max_team == RMul(max_per_team_pct, self.bankroll)
        s2 == [s1 EXCEPT !.exposure_by_team = Touch(@, team)]
        remaining_team == RMax(RZero, RSub(max_team, s2.exposure_by_team[team]))
        stake4 == RMin(stake3, remaining_team)
    IN  [ret |-> RMax(RZero, stake4), self |-> s2]

(***************************************************************************)
(* The RiskEngine in floating point.  A Python float is a binary float     *)
(* with 53 significant bits whose operations round to nearest, ties to     *)
(* even; the model keeps the rounding rule and shortens the significand    *)
(* to MantissaBits.  cfg is self.config (config.py 88-91, read from the    *)
(* environment).                                                           *)
(***************************************************************************)
MantissaBits == 5

RECURSIVE Pow2(_)
Pow2(k) == IF k = 0 THEN 1 ELSE 2 * Pow2(k - 1)

\* <<m, e>> with x = m * 2^e and 2^(MantissaBits-1) <= m < 2^MantissaBits, for x > 0
RECURSIVE Normalize(_, _)
Normalize(x, e) ==
    IF ~RLt(x, <<Pow2(MantissaBits), 1>>) THEN Normalize(RDiv(x, <<2, 1>>), e + 1)
    ELSE IF RLt(x, <<Pow2(MantissaBits - 1), 1>>) THEN Normalize(RMul(x, <<2, 1>>), e - 1)
    ELSE <<x, e>>

\* the float nearest to the real number x, ties to the even significand
fl(x) ==
    IF x[1] = 0 THEN RZero
    ELSE LET sign == IF x[1] < 0 THEN -1 ELSE 1
             ne == Normalize(<<Abs(x[1]), x[2]>>, 0)
             m == ne[1][1] \div ne[1][2]
             twice_rest == RSub(RMul(ne[1], <<2, 1>>), <<2 * m, 1>>)
             up == RLt(ROne, twice_rest) \/ (twice_rest = ROne /\ m % 2 = 1)
             rounded == IF up THEN m + 1 ELSE m
         IN  IF ne[2] >= 0 THEN Rat(sign * rounded * Pow2(ne[2]), 1)
             ELSE Rat(sign * rounded, Pow2(-ne[2]))

FAdd(a, b) == fl(RAdd(a, b))

FSub(a, b) == fl(RSub(a, b))

FMul(a, b) == fl(RMul(a, b))

\* config.py 88-91: the literals of the environment become floats
RiskConfig(per_bet, per_game, daily, per_team) ==
    [max_per_bet_pct |-> fl(per_bet), max_per_game_pct |-> fl(per_game),
     max_daily_risk_pct |-> fl(daily), max_per_team_pct |-> fl(per_team)]

\* risk_engine.py 64-121
can_take_trade_float(cfg, self, stake, game_id, team, league) ==
    LET new_daily_risk == FAdd(self.total_daily_risk, stake)
        max_daily_risk == FMul(cfg.max_daily_risk_pct, self.bankroll)
        new_game_exposure == FAdd(Lookup(self.exposure_by_game, game_id), stake)
        max_game_exposure == FMul(cfg.max_per_game_pct, self.bankroll)
        new_team_exposure == FAdd(Lookup(self.exposure_by_team, team), stake)
        max_team_exposure == FMul(cfg.max_per_team_pct, self.bankroll)
    IN  IF RLt(max_daily_risk, new_daily_risk) THEN FALSE
        ELSE IF RLt(max_game_exposure, new_game_exposure) THEN FALSE
        ELSE IF RLt(max_team_exposure, new_team_exposure) THEN FALSE
        ELSE TRUE

\* risk_engine.py 123-131
remaining_daily_risk_float(cfg, self) ==
    LET max_daily_risk == FMul(cfg.max_daily_risk_pct, self.bankroll)
    IN  RMax(RZero, FSub(max_daily_risk, self.total_daily_risk))

\* risk_engine.py 133-170
cap_stake_float(cfg, self, raw_stake, game_id, team, league) ==
    LET max_per_bet == FMul(cfg.max_per_bet_pct, self.bankroll)
        stake1 == RMin(raw_stake, max_per_bet)
        remaining_daily == remaining_daily_risk_float(cfg, self)
        stake2 == RMin(stake1, remaining_daily)
        max_game == FMul(cfg.max_per_game_pct, self.bankroll)
        remaining_game == RMax(RZero, FSub(max_game, Lookup(self.exposure_by_game, game_id)))
        stake3 == RMin(stake2, remaining_game)
        max_team == FMul(cfg.max_per_team_pct, self.bankroll)
        remaining_team == RMax(RZero, FSub(max_team, Lookup(self.exposure_by_team, team)))
        stake4 == RMin(stake3, remaining_team)
    IN  RMax(RZero, stake4)

(***************************************************************************)
(* Optional values and strings.  None stands for a missing float; team     *)
(* names are sequences of characters so that `in` and lower() can be       *)
(* computed.                                                               *)
(***************************************************************************)
None == <<>>

Unknown == <<"U", "n", "k">>

UpperToLower ==
    [c \in {"L", "W", "U", "A", "C"} |->
        CASE c = "L" -> "l" [] c = "W" -> "w" [] c = "U" -> "u" [] c = "A" -> "a" [] c = "C" -> "c"]

lower(str) ==
    [i \in DOMAIN str |-> IF str[i] \in DOMAIN UpperToLower THEN UpperToLower[str[i]] ELSE str[i]]

\* Python's `x in y` on strings
in(x, y) == \E i \in 0..(Len(y) - Len(x)) : SubSeq(y, i + 1, i + Len(x)) = x

\* int(): truncation toward zero
int(x) == IF x[1] >= 0 THEN x[1] \div x[2] ELSE -((-x[1]) \div x[2])

(***************************************************************************)
(* strategy.py                                                             *)
(***************************************************************************)
american_to_implied_prob(odds) ==
    IF odds < 0 THEN Rat(-odds, (-odds) + 100)
                ELSE Rat(100, odds + 100)

remove_vig_raw(p_a_raw, p_b_raw) ==
    LET total == RAdd(p_a_raw, p_b_raw)
    IN  IF total = RZero THEN <<Rat(1, 2), Rat(1, 2)>>
        ELSE <<p_a_raw, p_b_raw>>

remove_vig(p_a_raw, p_b_raw) ==
    LET total == RAdd(p_a_raw, p_b_raw)
    IN  IF total = RZero THEN <<Rat(1, 2), Rat(1, 2)>>
        ELSE <<RDiv(p_a_raw, total), RDiv(p_b_raw, total)>>

compute_fair_probs(ref_odds_dict) ==
    [game_id \in DOMAIN ref_odds_dict |->
        LET ref_odds == ref_odds_dict[game_id]
            p_a_raw == american_to_implied_prob(ref_odds.team_a_american_odds)
            p_b_raw == american_to_implied_prob(ref_odds.team_b_american_odds)
            fair == remove_vig(p_a_raw, p_b_raw)
        IN  [game_id |-> game_id, team_a_fair_prob |-> fair[1], team_b_fair_prob |-> fair[2]]]

calc_edge_inclusive(fair_prob, kalshi_price, research_prob, research_confidence) ==
    IF research_prob # None /\ RLe(RZero, research_prob) /\ RLe(research_prob, ROne)
    THEN LET research_weight ==
                 IF research_confidence = "HIGH" THEN Rat(85, 100)
                 ELSE IF research_confidence = "MEDIUM" THEN Rat(70, 100)
                 ELSE IF research_confidence = "LOW" THEN Rat(50, 100)
                 ELSE Rat(70, 100)
             combined_prob == RAdd(RMul(research_weight, research_prob),
                                   RMul(RSub(ROne, research_weight), fair_prob))
         IN  RSub(combined_prob, kalshi_price)
    ELSE RSub(fair_prob, kalshi_price)

calc_edge(fair_prob, kalshi_price, research_prob, research_confidence) ==
    IF research_prob # None /\ RLt(RZero, research_prob) /\ RLt(research_prob, ROne)
    THEN LET research_weight ==
                 IF research_confidence = "HIGH" THEN Rat(85, 100)
                 ELSE IF research_confidence = "MEDIUM" THEN Rat(70, 100)
                 ELSE IF research_confidence = "LOW" THEN Rat(50, 100)
                 ELSE Rat(70, 100)
             combined_prob == RAdd(RMul(research_weight, research_prob),
                                   RMul(RSub(ROne, research_weight), fair_prob))
         IN  RSub(combined_prob, kalshi_price)
    ELSE RSub(fair_prob, kalshi_price)

kelly_fraction_default_low(fair_prob, market_prob, kelly_factor_, research_confidence) ==
    IF RLe(fair_prob, market_prob) THEN [exc |-> "", ret |-> RZero]
    ELSE IF RSub(ROne, market_prob) = RZero THEN [exc |-> "ZeroDivisionError", ret |-> RZero]
    ELSE LET base == RDiv(RSub(fair_prob, market_prob), RSub(ROne, market_prob))
             base_kelly == RMul(base, kelly_factor_)
             confidence_multiplier ==
                 IF research_confidence = "HIGH" THEN Rat(10, 10)
                 ELSE IF research_confidence = "MEDIUM" THEN Rat(9, 10)
                 ELSE Rat(7, 10)
         IN  [exc |-> "", ret |-> RMax(RZero, RMul(base_kelly, confidence_multiplier))]

kelly_fraction_guard_full(fair_prob, market_prob, kelly_factor_, research_confidence) ==
    IF RLe(fair_prob, market_prob) THEN [exc |-> "", ret |-> ROne]
    ELSE IF RSub(ROne, market_prob) = RZero THEN [exc |-> "ZeroDivisionError", ret |-> RZero]
    ELSE LET base == RDiv(RSub(fair_prob, market_prob), RSub(ROne, market_prob))
             base_kelly == RMul(base, kelly_factor_)
             confidence_multiplier ==
                 IF research_confidence = "HIGH" THEN Rat(10, 10)
                 ELSE IF research_confidence = "MEDIUM" THEN Rat(9, 10)
                 ELSE IF research_confidence = "LOW" THEN Rat(7, 10)
                 ELSE Rat(8, 10)
         IN  [exc |-> "", ret |-> RMax(RZero, RMul(base_kelly, confidence_multiplier))]

kelly_fraction_strict_guard(fair_prob, market_prob, kelly_factor_, research_confidence) ==
    IF RLt(fair_prob, market_prob) THEN [exc |-> "", ret |-> RZero]
    ELSE IF RSub(ROne, market_prob) = RZero THEN [exc |-> "ZeroDivisionError", ret |-> RZero]
    ELSE LET base == RDiv(RSub(fair_prob, market_prob), RSub(ROne, market_prob))
             base_kelly == RMul(base, kelly_factor_)
             confidence_multiplier ==
                 IF research_confidence = "HIGH" THEN Rat(10, 10)
                 ELSE IF research_confidence = "MEDIUM" THEN Rat(9, 10)
                 ELSE IF research_confidence = "LOW" THEN Rat(7, 10)
                 ELSE Rat(8, 10)
         IN  [exc |-> "", ret |-> RMax(RZero, RMul(base_kelly, confidence_multiplier))]

\* returns [exc, ret]: exc names the exception raised, "" when none
kelly_fraction(fair_prob, market_prob, kelly_factor_, research_confidence) ==
    IF RLe(fair_prob, market_prob) THEN [exc |-> "", ret |-> RZero]
    ELSE IF RSub(ROne, market_prob) = RZero THEN [exc |-> "ZeroDivisionError", ret |-> RZero]
    ELSE LET base == RDiv(RSub(fair_prob, market_prob), RSub(ROne, market_prob))
             base_kelly == RMul(base, kelly_factor_)
             confidence_multiplier ==
                 IF research_confidence = "HIGH" THEN Rat(10, 10)
                 ELSE IF research_confidence = "MEDIUM" THEN Rat(9, 10)
                 ELSE IF research_confidence = "LOW" THEN Rat(7, 10)
                 ELSE Rat(8, 10)
         IN  [exc |-> "", ret |-> RMax(RZero, RMul(base_kelly, confidence_multiplier))]

get_fair_prob_for_team(fair_probs, game_id, team, team_a, team_b) ==
    IF game_id \notin DOMAIN fair_probs THEN Rat(1, 2)
    ELSE LET fair == fair_probs[game_id]
         IN  IF in(lower(team), lower(team_a)) \/ in(lower(team_a), lower(team))
             THEN fair.team_a_fair_prob
             ELSE IF in(lower(team), lower(team_b)) \/ in(lower(team_b), lower(team))
             THEN fair.team_b_fair_prob
             ELSE RDiv(RAdd(fair.team_a_fair_prob, fair.team_b_fair_prob), Rat(2, 1))

(***************************************************************************)
(* kalshi_client.py: the order path.  http_ok is the exchange's answer to  *)
(* a request that is sent.  `sent` lists the requests handed to the HTTP   *)
(* session.                                                                *)
(***************************************************************************)
request(mode, method, endpoint, json, http_ok) ==
    IF mode = "SHADOW" /\ method = "POST"
    THEN [exc |-> FALSE, data |-> "", sent |-> <<>>]
    ELSE [exc |-> ~http_ok,
          data |-> IF http_ok THEN "order_1" ELSE "",
          sent |-> <<[method |-> method, endpoint |-> endpoint, json |-> json]>>]

\* returns [ret, sent]: the order id ("None" on failure) and the requests sent
place_yes_order(mode, market_id, price, size, http_ok) ==
    IF mode = "SHADOW"
    THEN [ret |-> "shadow_order", sent |-> <<>>]
    ELSE LET price_cents == int(RMul(price, Rat(100, 1)))
             r == request(mode, "POST", "/portfolio/orders",
                          [ticker |-> market_id, count |-> size, price |-> price_cents],
                          http_ok)
         IN  [ret |-> IF r.exc THEN "None" ELSE r.data, sent |-> r.sent]

(***************************************************************************)
(* execution.py                                                            *)
(***************************************************************************)
NoTrade ==
    [is_none |-> TRUE, market_id |-> <<>>, game_id |-> "", team |-> <<>>, league |-> "",
     fair_prob |-> RZero, kalshi_prob |-> RZero, edge |-> RZero, stake |-> RZero,
     quantity |-> 0, limit_price |-> RZero, mode |-> "", order_id |-> "None"]

Trade(market, fair_prob, kalshi_price, edge, stake, quantity, max_price, mode, order_id) ==
    [is_none |-> FALSE, market_id |-> market.market_id, game_id |-> market.game_id,
     team |-> market.team, league |-> market.league, fair_prob |-> fair_prob,
     kalshi_prob |-> kalshi_price, edge |-> edge, stake |-> stake,
     quantity |-> quantity, limit_price |-> max_price, mode |-> mode, order_id |-> order_id]

execute_trade_shadow_places_order(market, stake, kalshi_price, fair_prob, edge, mode, http_ok) ==
    LET max_price == RMin(ROne, RAdd(kalshi_price, slippage_tolerance))
        quantity == int(RDiv(stake, max_price))
    IN  IF quantity <= 0 THEN [trade |-> NoTrade, calls |-> <<>>, sent |-> <<>>]
        ELSE IF mode \in {"SHADOW", "LIVE"}
        THEN LET r == place_yes_order(mode, market.market_id, max_price, quantity, http_ok)
             IN  [trade |-> Trade(market, fair_prob, kalshi_price, edge, stake, quantity,
                                  max_price, mode, r.ret),
                  calls |-> <<[market_id |-> market.market_id, price |-> max_price,
                               size |-> quantity]>>,
                  sent |-> r.sent]
        ELSE [trade |-> NoTrade, calls |-> <<>>, sent |-> <<>>]

execute_trade_any_quantity(market, stake, kalshi_price, fair_prob, edge, mode, http_ok) ==
    LET max_price == RMin(ROne, RAdd(kalshi_price, slippage_tolerance))
        quantity == int(RDiv(stake, max_price))
    IN  IF mode = "SHADOW"
        THEN [trade |-> Trade(market, fair_prob, kalshi_price, edge, stake, quantity,
                              max_price, "SHADOW", "None"),
              calls |-> <<>>, sent |-> <<>>]
        ELSE IF mode = "LIVE"
        THEN LET r == place_yes_order(mode, market.market_id, max_price, quantity, http_ok)
             IN  [trade |-> Trade(market, fair_prob, kalshi_price, edge, stake, quantity,
                                  max_price, "LIVE", r.ret),
                  calls |-> <<[market_id |-> market.market_id, price |-> max_price,
                               size |-> quantity]>>,
                  sent |-> r.sent]
        ELSE [trade |-> NoTrade, calls |-> <<>>, sent |-> <<>>]

\* returns [trade, calls, sent]: the Trade (or NoTrade for None), the
\* place_yes_order calls made and the requests sent to the exchange
execute_trade(market, stake, kalshi_price, fair_prob, edge, mode, http_ok) ==
    LET max_price == RMin(ROne, RAdd(kalshi_price, slippage_tolerance))
        quantity == int(RDiv(stake, max_price))
    IN  IF quantity <= 0 THEN [trade |-> NoTrade, calls |-> <<>>, sent |-> <<>>]
        ELSE IF mode = "SHADOW"
        THEN [trade |-> Trade(market, fair_prob, kalshi_price, edge, stake, quantity,
                              max_price, "SHADOW", "None"),
              calls |-> <<>>, sent |-> <<>>]
        ELSE IF mode = "LIVE"
        THEN LET r == place_yes_order(mode, market.market_id, max_price, quantity, http_ok)
             IN  [trade |-> Trade(market, fair_prob, kalshi_price, edge, stake, quantity,
                                  max_price, "LIVE", r.ret),
                  calls |-> <<[market_id |-> market.market_id, price |-> max_price,
                               size |-> quantity]>>,
                  sent |-> r.sent]
        ELSE [trade |-> NoTrade, calls |-> <<>>, sent |-> <<>>]


(***************************************************************************)
(* Inputs of the poll loop: the exchange's markets and account data, the   *)
(* odds feed and the research results.                                     *)
(***************************************************************************)
MaxMarkets == 2

\* Market; event_name is held as its " vs "-separated segments, start_time
\* as the minutes until the start and whether the datetime is tz-aware
Market(market_id, event_name, game_id, league, team, best_yes_price, volume, spread, minutes_to_start, tz_aware) ==
    [market_id |-> market_id, event_name |-> event_name, game_id |-> game_id,
     league |-> league, team |-> team, best_yes_price |-> best_yes_price,
     volume |-> volume, spread |-> spread, minutes_to_start |-> minutes_to_start,
     tz_aware |-> tz_aware]

\* a title "LA C.. vs War.. Winner?": event_name keeps the title's letters,
\* team is team_a.title() (kalshi_client.py 415-428, 347-350)
LAClippers == <<"L", "A", "C">>

LaClippers == <<"L", "a", "C">>

MarketCatalogue ==
    { Market(<<"KXNBAGAME", "1">>, <<Lakers, Warriors>>, "g1", "NBA", Lakers,
             Rat(30, 100), 5000, Rat(2, 100), 120, FALSE),
      Market(<<"KXNBAGAME", "2">>, <<Lakers, Warriors>>, "g1", "NBA", Warriors,
             Rat(30, 100), 5000, Rat(2, 100), 120, FALSE),
      Market(<<"KXNBAGAME", "3">>, <<Lakers, Warriors>>, "g1", "NBA", Lakers,
             Rat(30, 100), 5000, Rat(2, 100), 120, TRUE),
      Market(<<"KXNBAGAME", "4">>, <<Lakers, Warriors>>, "g1", "NBA", Lakers,
             Rat(47, 100), 5000, Rat(2, 100), 120, FALSE),
      Market(<<"KXNBAGAME", "5">>, <<Lakers, Warriors>>, "g1", "NBA", Lakers,
             Rat(30, 100), 100, Rat(2, 100), 120, FALSE),
      Market(<<"KXNCAAB", "1">>, <<Lakers, Warriors>>, "g2", "NCAAB", Warriors,
             Rat(30, 100), 5000, Rat(2, 100), 120, FALSE),
      Market(<<"KXNCAAB", "2">>, <<Lakers, Warriors>>, "g2", "NCAAB", Lakers,
             Rat(30, 100), 5000, Rat(2, 100), 120, FALSE),
      Market(<<"KXNBAGAME", "6">>, <<Warriors, Lakers>>, "g3", "NBA", Lakers,
             Rat(30, 100), 5000, Rat(2, 100), 120, FALSE),
      Market(<<"KXGAME", "1">>, <<Lakers>>, "g4", "UNKNOWN", Lakers,
             Rat(30, 100), 5000, Rat(2, 100), 120, FALSE),
      Market(<<"KXNBAGAME", "7">>, <<LAClippers, Warriors>>, "g5", "NBA", LaClippers,
             Rat(30, 100), 5000, Rat(2, 100), 120, FALSE) }

\* a listing holds each ticker once
MarketLists ==
    {ms \in SeqsUpTo(MarketCatalogue, MaxMarkets) :
        \A i, j \in DOMAIN ms : i # j => ms[i].market_id # ms[j].market_id}

\* the three mock markets of fetch_sports_markets
MockMarkets ==
    << Market(<<"market_", "0">>, <<Lakers, Warriors>>, "NBA_0", "NBA", Lakers,
              Rat(45, 100), 5000, Rat(5, 100), 120, FALSE),
       Market(<<"market_", "1">>, <<Lakers, Warriors>>, "NFL_1", "NFL", Lakers,
              Rat(45, 100), 5000, Rat(5, 100), 120, FALSE),
       Market(<<"market_", "2">>, <<Lakers, Warriors>>, "EPL_2", "EPL", Lakers,
              Rat(45, 100), 5000, Rat(5, 100), 120, FALSE) >>

ReferenceOdds(game_id, team_a_american_odds, team_b_american_odds, source) ==
    [game_id |-> game_id, team_a_american_odds |-> team_a_american_odds,
     team_b_american_odds |-> team_b_american_odds, source |-> source]

\* best odds The Odds API holds, per game it can match
OddsFeed ==
    [g \in {"g1", "g2", "g3", "g5"} |->
        CASE g = "g1" -> <<100, 100>>
          [] g = "g2" -> <<-150, 130>>
          [] g = "g3" -> <<-150, 130>>
          [] g = "g5" -> <<-150, 130>>]

MockOddsChoices == {<<-150, 130>>, <<130, -150>>}

GameResearch(research_probability, reasoning, confidence) ==
    [is_none |-> FALSE, research_probability |-> research_probability,
     reasoning |-> reasoning, confidence |-> confidence]

NoGameResearch ==
    [is_none |-> TRUE, research_probability |-> None, reasoning |-> "", confidence |-> "None"]

\* result of research.research_game per game
ResearchFeed ==
    [g \in {"g1", "g2", "g4", "g5"} |->
        CASE g = "g1" -> GameResearch(Rat(50, 100), "analysis", "MEDIUM")
          [] g = "g2" -> GameResearch(RZero, "analysis", "None")
          [] g = "g4" -> GameResearch(Rat(65, 100), "analysis", "HIGH")
          [] g = "g5" -> GameResearch(Rat(65, 100), "analysis", "HIGH")]

\* games for which research.research_game raises
ResearchFailures == {"g3"}

\* research.py 43-49: the engine starts with an empty cache; cache_ttl is
\* timedelta(hours=6)
cache_ttl == 6

ResearchEngine == [cache |-> [k \in {} |-> NoGameResearch]]

\* research.py 51-175.  `computed` is the research lines 68-169 produce when
\* they run.  Returns [ret, self, fetched]: fetched tells whether they ran.
research_game(self, game, computed) ==
    LET cache_key == <<game.game_id, game.team_a, game.team_b>>
    IN  IF cache_key \in DOMAIN self.cache
        THEN [ret |-> self.cache[cache_key], self |-> self, fetched |-> FALSE]
        ELSE [ret |-> computed,
              self |-> [self EXCEPT !.cache =
                           [k \in DOMAIN self.cache \cup {cache_key} |->
                               IF k = cache_key THEN computed ELSE self.cache[k]]],
              fetched |-> TRUE]

\* positions as /portfolio/positions reports them (average_price in cents)
PositionData(ticker, game_id, team, league, position, average_price) ==
    [ticker |-> ticker, game_id |-> game_id, team |-> team, league |-> league,
     position |-> position, average_price |-> average_price]

ExchangePositions ==
    { <<>>,
      << PositionData("KX1", "g1", Lakers, "NBA", 10, 30) >>,
      << PositionData("KX1", "g1", Lakers, "NBA", 10, 30),
         PositionData("KX2", "g1", Warriors, "NBA", 10, 50) >>,
      << PositionData("KX4", "g1", Lakers, "NBA", -10, 30) >> }

MockBalance == Rat(10000, 1)

(***************************************************************************)
(* kalshi_client.py: the account state.  A response is [ok, data]: the    *)
(* request succeeded and its payload.  Results are [exc, ret].             *)
(***************************************************************************)
Response(ok, data) == [ok |-> ok, data |-> data]

get_account_balance(mode, use_real_api, response) ==
    IF ~use_real_api /\ mode = "SHADOW" THEN [exc |-> FALSE, ret |-> MockBalance]
    ELSE IF ~response.ok THEN [exc |-> TRUE, ret |-> RZero]
    ELSE [exc |-> FALSE, ret |-> response.data]

parse_position(pos_data) ==
    LET quantity == pos_data.position
        avg_price == Rat(pos_data.average_price, 100)
        max_loss == RMul(Rat(quantity, 1), avg_price)
    IN  Position(pos_data.ticker, pos_data.game_id, pos_data.team, pos_data.league,
                 quantity, avg_price, max_loss)

get_positions(mode, response) ==
    IF mode = "SHADOW" THEN <<>>
    ELSE IF ~response.ok THEN <<>>
    ELSE [i \in DOMAIN response.data |-> parse_position(response.data[i])]

\* the logger.error lines of get_account_balance (166-168) and, when the
\* balance was returned, of get_positions (207-209)
account_errors(mode, use_real_api, balance_response, positions_response) ==
    IF get_account_balance(mode, use_real_api, balance_response).exc
    THEN <<"Error fetching balance">>
    ELSE IF mode # "SHADOW" /\ ~positions_response.ok
    THEN <<"Error fetching positions">>
    ELSE <<>>

fetch_sports_markets(mode, use_real_api, response) ==
    IF ~use_real_api /\ mode = "SHADOW" THEN MockMarkets
    ELSE IF ~response.ok THEN <<>>
    ELSE response.data

(***************************************************************************)
(* odds_client.py                                                          *)
(***************************************************************************)
map_league_to_sport_key(league) ==
    IF league \in {"NBA", "NFL", "NHL", "MLB", "EPL", "UCL", "NCAAB", "NCAAF"}
    THEN league ELSE "None"

fetch_reference_odds(odds_api_key, games, mock_odds) ==
    IF ~odds_api_key
    THEN [g \in DOMAIN games |-> ReferenceOdds(g, mock_odds[1], mock_odds[2], "mock")]
    ELSE [g \in {x \in DOMAIN games :
                    /\ map_league_to_sport_key(games[x].league) # "None"
                    /\ x \in DOMAIN OddsFeed} |->
             ReferenceOdds(g, OddsFeed[g][1], OddsFeed[g][2], "the-odds-api")]

(***************************************************************************)
(* runner.py                                                               *)
(***************************************************************************)
market_is_eligible(market) ==
    IF market.volume < min_market_volume THEN FALSE
    ELSE IF RLt(max_spread, market.spread) THEN FALSE
    ELSE IF market.minutes_to_start < 0 THEN FALSE
    ELSE IF market.minutes_to_start < min_time_to_start_minutes THEN FALSE
    ELSE TRUE

\* returns <<game_id, team, team_a, team_b>>
map_market_to_game_and_team(market) ==
    LET event_parts == market.event_name
    IN  IF Len(event_parts) = 2
        THEN <<market.game_id, market.team, event_parts[1], event_parts[2]>>
        ELSE <<market.game_id, market.team, market.team, Unknown>>

extract_games_from_markets(markets_) ==
    [g \in {markets_[i].game_id : i \in DOMAIN markets_} |->
        LET first == CHOOSE i \in DOMAIN markets_ :
                         /\ markets_[i].game_id = g
                         /\ \A j \in 1..(i - 1) : markets_[j].game_id # g
            m == map_market_to_game_and_team(markets_[first])
        IN  [game_id |-> g, team_a |-> m[3], team_b |-> m[4],
             league |-> markets_[first].league]]

\* the research loop of main: a failed research_game leaves None
research_games(games) ==
    [g \in DOMAIN games |->
        IF g \in ResearchFailures \/ g \notin DOMAIN ResearchFeed
        THEN NoGameResearch ELSE ResearchFeed[g]]

league_thresholds_nba_low ==
    [l \in {"NBA", "NFL", "EPL", "UCL", "La Liga", "NHL", "MLB"} |->
        CASE l = "NBA" -> Rat(1, 100)
          [] l = "NFL" -> Rat(6, 100)
          [] l = "EPL" -> Rat(8, 100)
          [] l = "UCL" -> Rat(10, 100)
          [] l = "La Liga" -> Rat(8, 100)
          [] l = "NHL" -> Rat(7, 100)
          [] l = "MLB" -> Rat(7, 100)]

league_thresholds ==
    [l \in {"NBA", "NFL", "EPL", "UCL", "La Liga", "NHL", "MLB"} |->
        CASE l = "NBA" -> Rat(5, 100)
          [] l = "NFL" -> Rat(6, 100)
          [] l = "EPL" -> Rat(8, 100)
          [] l = "UCL" -> Rat(10, 100)
          [] l = "La Liga" -> Rat(8, 100)
          [] l = "NHL" -> Rat(7, 100)
          [] l = "MLB" -> Rat(7, 100)]

\* lines 377-388 of main: the blend recomputed for sizing
sizing_combined_prob(fair_prob, research_prob, research_confidence) ==
    IF research_prob # None
    THEN LET research_weight ==
                 IF research_confidence = "HIGH" THEN Rat(85, 100)
                 ELSE IF research_confidence = "MEDIUM" THEN Rat(70, 100)
                 ELSE IF research_confidence = "LOW" THEN Rat(50, 100)
                 ELSE Rat(70, 100)
         IN  RAdd(RMul(research_weight, research_prob),
                  RMul(RSub(ROne, research_weight), fair_prob))
    ELSE fair_prob

is_mock_odds_never(ref_odds_, game_id) == FALSE

\* lines 286-288 of main: the game's reference odds are placeholder odds
is_mock_odds(ref_odds_, game_id) ==
    game_id \in DOMAIN ref_odds_ /\ ref_odds_[game_id].source = "mock"

below_threshold_never(edge, effective_threshold) == FALSE

\* line 349 of main: the edge gate
below_threshold(edge, effective_threshold) == RLt(edge, effective_threshold)

\* a call of a RiskEngine method by main: its arguments and its result
RiskCall(op, market_id, positions_, bankroll_, stake, game_id, team, league, ret, ok) ==
    [op |-> op, market_id |-> market_id, positions |-> positions_, bankroll |-> bankroll_,
     stake |-> stake, game_id |-> game_id, team |-> team, league |-> league,
     ret |-> ret, ok |-> ok]

rebuild_risk_skipped(risk_, positions_, bankroll_) == [self |-> risk_, calls |-> <<>>]

\* line 212 of main: returns [self, calls], the engine and the call made
rebuild_risk(risk_, positions_, bankroll_) ==
    [self |-> update_from_positions(risk_, positions_, bankroll_),
     calls |-> <<RiskCall("update_from_positions", <<>>, positions_, bankroll_, RZero,
                          "", <<>>, "", RZero, FALSE)>>]

NoEval ==
    [outcome |-> "", fair_prob |-> None, research_prob |-> None, edge |-> None,
     effective_threshold |-> None, combined_prob |-> None, raw_stake |-> None,
     stake |-> None, executed |-> None]

\* The body of `for market in markets` (lines 257-428) for one market, in
\* the order of the source: process_market holds the filters of lines
\* 259-290 and hands the locals on to evaluate_edge (292-314), apply_gates
\* (316-372), size_trade (375-400), check_risk (402-405) and
\* execute_and_record (407-428).  Each returns
\* [eval, risk, trade, calls, sent, risk_calls]; eval.outcome names the
\* branch that ended the body, or the exception that left it; eval.executed
\* is the stake handed to execute_trade.
MarketResult(eval, risk_, trade, calls_, sent_, risk_calls_) ==
    [eval |-> eval, risk |-> risk_, trade |-> trade, calls |-> calls_, sent |-> sent_,
     risk_calls |-> risk_calls_]

\* lines 407-428
execute_and_record(market, mode_, http_ok, e, kalshi_prob, combined_prob, edge, stake, risk_, risk_calls_) ==
    LET x == execute_trade(market, stake, kalshi_prob, combined_prob, edge, mode_, http_ok)
    IN  MarketResult([e EXCEPT !.outcome = IF x.trade.is_none THEN "not_executed" ELSE "traded",
                               !.executed = stake],
                     risk_, x.trade, x.calls, x.sent, risk_calls_)

\* lines 402-405
check_risk(market, mode_, http_ok, e, game_id, team, kalshi_prob, combined_prob, edge, stake, allowed, c1) ==
    LET c2 == RiskCall("can_take_trade", market.market_id, <<>>, RZero, stake, game_id, team,
                       market.league, RZero, allowed.ret)
    IN  IF ~allowed.ret
        THEN MarketResult([e EXCEPT !.outcome = "rejected"], allowed.self, NoTrade, <<>>, <<>>,
                          <<c1, c2>>)
        ELSE execute_and_record(market, mode_, http_ok, e, kalshi_prob, combined_prob, edge,
                                stake, allowed.self, <<c1, c2>>)

\* lines 395-400
apply_cap(market, mode_, http_ok, e, game_id, team, kalshi_prob, combined_prob, edge, raw_stake, capped) ==
    LET c1 == RiskCall("cap_stake", market.market_id, <<>>, RZero, raw_stake, game_id, team,
                       market.league, capped.ret, FALSE)
        e3 == [e EXCEPT !.raw_stake = raw_stake, !.stake = capped.ret]
    IN  IF RLe(capped.ret, RZero)
        THEN MarketResult([e3 EXCEPT !.outcome = "capped_to_zero"], capped.self, NoTrade,
                          <<>>, <<>>, <<c1>>)
        ELSE check_risk(market, mode_, http_ok, e3, game_id, team, kalshi_prob, combined_prob,
                        edge, capped.ret,
                        can_take_trade(capped.self, capped.ret, game_id, team, market.league),
                        c1)

\* lines 375-396
size_trade(market, bankroll_, risk_, mode_, http_ok, e, game_id, team, kalshi_prob, combined_prob, edge, kelly_frac) ==
    IF kelly_frac.exc # ""
    THEN MarketResult([e EXCEPT !.outcome = kelly_frac.exc], risk_, NoTrade, <<>>, <<>>, <<>>)
    ELSE apply_cap(market, mode_, http_ok, e, game_id, team, kalshi_prob, combined_prob, edge,
                   RMul(kelly_frac.ret, bankroll_),
                   cap_stake(risk_, RMul(kelly_frac.ret, bankroll_), game_id, team,
                             market.league))

\* lines 316-388
apply_gates(market, bankroll_, risk_, mode_, http_ok, game_id, team, game_research_obj, fair_prob, research_prob, research_confidence, edge, effective_threshold, combined_prob) ==
    LET kalshi_prob == market.best_yes_price
        e1 == [NoEval EXCEPT !.fair_prob = fair_prob, !.research_prob = research_prob,
                             !.edge = edge, !.effective_threshold = effective_threshold]
        skip(outcome) == MarketResult([e1 EXCEPT !.outcome = outcome], risk_, NoTrade,
                                      <<>>, <<>>, <<>>)
    IN  IF game_research_obj.is_none \/ game_research_obj.reasoning = ""
        THEN skip("no_research")
        ELSE IF research_prob # None /\ RLt(research_prob, Rat(45, 100))
        THEN skip("research_against")
        ELSE IF below_threshold(edge, effective_threshold) THEN skip("low_edge")
        ELSE IF market.tz_aware THEN skip("TypeError")
        ELSE size_trade(market, bankroll_, risk_, mode_, http_ok,
                        [e1 EXCEPT !.combined_prob = combined_prob], game_id, team,
                        kalshi_prob, combined_prob, edge,
                        kelly_fraction(combined_prob, kalshi_prob, kelly_factor,
                                       research_confidence))

\* lines 292-337
evaluate_edge(market, bankroll_, risk_, mode_, http_ok, game_id, team, team_a, game_research_obj, fair_prob) ==
    LET research_prob ==
            IF ~game_research_obj.is_none /\ game_research_obj.research_probability # None
            THEN IF team = team_a THEN game_research_obj.research_probability
                 ELSE RSub(ROne, game_research_obj.research_probability)
            ELSE None
        research_confidence ==
            IF ~game_research_obj.is_none THEN game_research_obj.confidence ELSE "None"
    IN  apply_gates(market, bankroll_, risk_, mode_, http_ok, game_id, team, game_research_obj,
                    fair_prob, research_prob, research_confidence,
                    calc_edge(fair_prob, market.best_yes_price, research_prob,
                              research_confidence),
                    IF market.league \in DOMAIN league_thresholds
                    THEN league_thresholds[market.league] ELSE edge_threshold,
                    sizing_combined_prob(fair_prob, research_prob, research_confidence))

process_market(market, bankroll_, risk_, mode_, ref_odds_, fair_probs_, game_research_, http_ok) ==
    LET m == map_market_to_game_and_team(market)
        skip(outcome) == MarketResult([NoEval EXCEPT !.outcome = outcome], risk_, NoTrade,
                                      <<>>, <<>>, <<>>)
    IN  IF ~market_is_eligible(market) THEN skip("ineligible")
        ELSE IF m[1] \notin DOMAIN fair_probs_ THEN skip("no_fair_probs")
        ELSE IF is_mock_odds(ref_odds_, m[1]) THEN skip("mock_odds")
        ELSE evaluate_edge(market, bankroll_, risk_, mode_, http_ok, m[1], m[2], m[3],
                           IF m[1] \in DOMAIN game_research_ THEN game_research_[m[1]]
                           ELSE NoGameResearch,
                           get_fair_prob_for_team(fair_probs_, m[1], m[2], m[3], m[4]))

\* the loop `for market in markets` from market i on: returns [evals, trades],
\* ending at the first exception that leaves the loop
RECURSIVE run_markets(_, _, _, _, _, _, _, _)
run_markets(markets_, i, bankroll_, risk_, mode_, ref_odds_, fair_probs_, game_research_) ==
    IF i > Len(markets_) THEN [evals |-> <<>>, trades |-> <<>>]
    ELSE LET r == process_market(markets_[i], bankroll_, risk_, mode_, ref_odds_,
                                 fair_probs_, game_research_, TRUE)
             rest == IF r.eval.outcome \in {"TypeError", "ZeroDivisionError"}
                     THEN [evals |-> <<>>, trades |-> <<>>]
                     ELSE run_markets(markets_, i + 1, bankroll_, r.risk, mode_, ref_odds_,
                                      fair_probs_, game_research_)
         IN  [evals |-> <<r.eval>> \o rest.evals,
              trades |-> (IF r.trade.is_none THEN <<>> ELSE <<r.trade>>) \o rest.trades]


(***************************************************************************)
(* State.                                                                  *)
(***************************************************************************)
VARIABLES
    risk,           \* the RiskEngine instance (runner.py: risk = RiskEngine(config))
    last,           \* SpecRisk, SpecStrategy: the most recent call, its arguments and result
    config,         \* mode, and whether the exchange and odds API keys are set
    pc,             \* position of main in its iteration
    bankroll,       \* main's local of the current iteration
    positions,      \* main's local of the current iteration
    markets,        \* main's local: the markets of the current iteration
    idx,            \* index in markets of the market the loop is at
    ref_odds,       \* main's local
    fair_probs,     \* main's local
    game_research,  \* main's local
    evals,          \* per market evaluated in this iteration: the branch taken and its locals
    trades,         \* the Trade objects execute_trade returned in this iteration
    calls,          \* the place_yes_order calls of this iteration
    sent,           \* the order requests handed to the HTTP session in this iteration
    error,          \* the exception that ended this iteration, "" when none
    risk_calls,     \* the RiskEngine calls main made in this iteration
    research,       \* the ResearchEngine instance (runner.py: research = ResearchEngine())
    now,            \* the wall clock, in hours
    log             \* the error lines kalshi_client logged for the account fetch of this iteration

vars == <<risk, last, config, pc, bankroll, positions, markets, idx, ref_odds, fair_probs,
          game_research, evals, trades, calls, sent, error, risk_calls, research, now, log>>

loopVars == <<config, pc, bankroll, positions, markets, idx, ref_odds, fair_probs,
              game_research, evals, trades, calls, sent, error, risk_calls, research, now, log>>

NoCall ==
    [op |-> "none", positions |-> <<>>, bankroll |-> RZero, stake |-> RZero,
     game_id |-> "g1", team |-> Lakers, league |-> "NBA",
     ok |-> FALSE, ret |-> RZero, repeated |-> FALSE, pre_total |-> RZero]

EmptyDict == [k \in {} |-> 0]

Configs ==
    { [mode |-> "SHADOW", use_real_api |-> FALSE, odds_api_key |-> TRUE],
      [mode |-> "SHADOW", use_real_api |-> TRUE, odds_api_key |-> TRUE],
      [mode |-> "SHADOW", use_real_api |-> TRUE, odds_api_key |-> FALSE],
      [mode |-> "LIVE", use_real_api |-> TRUE, odds_api_key |-> TRUE],
      [mode |-> "LIVE", use_real_api |-> TRUE, odds_api_key |-> FALSE] }

IterationStart ==
    /\ pc = "account"
    /\ bankroll = RZero
    /\ positions = <<>>
    /\ markets = <<>>
    /\ idx = 0
    /\ ref_odds = EmptyDict
    /\ fair_probs = EmptyDict
    /\ game_research = EmptyDict
    /\ evals = <<>>
    /\ trades = <<>>
    /\ calls = <<>>
    /\ sent = <<>>
    /\ error = ""
    /\ risk_calls = <<>>
    /\ research = ResearchEngine
    /\ now = 0
    /\ log = <<>>

(***************************************************************************)
(* SpecRisk: the RiskEngine driven by arbitrary call sequences.            *)
(***************************************************************************)
InitRisk ==
    /\ risk = RiskEngine
    /\ last = NoCall
    /\ config = [mode |-> "SHADOW", use_real_api |-> FALSE, odds_api_key |-> TRUE]
    /\ IterationStart

CallUpdateFromPositions ==
    /\ \E positions_ \in PositionLists, bankroll_ \in Bankrolls :
        /\ risk' = update_from_positions(risk, positions_, bankroll_)
        /\ last' = [NoCall EXCEPT !.op = "update_from_positions",
                                  !.positions = positions_, !.bankroll = bankroll_,
                                  !.repeated = (last.op = "update_from_positions"
                                                 /\ last.positions = positions_
                                                 /\ last.bankroll = bankroll_),
                                  !.pre_total = risk.total_daily_risk]
    /\ UNCHANGED loopVars

CallCanTakeTrade ==
    /\ \E stake \in Stakes, game_id \in GameIds, team \in Teams, league \in Leagues :
        LET r == can_take_trade(risk, stake, game_id, team, league)
        IN  /\ risk' = r.self
            /\ last' = [NoCall EXCEPT !.op = "can_take_trade", !.stake = stake,
                                      !.game_id = game_id, !.team = team,
                                      !.league = league, !.ok = r.ret,
                                      !.pre_total = risk.total_daily_risk]
    /\ UNCHANGED loopVars

CallCapStake ==
    /\ \E raw_stake \in Stakes, game_id \in GameIds, team \in Teams, league \in Leagues :
        LET r == cap_stake(risk, raw_stake, game_id, team, league)
        IN  /\ risk' = r.self
            /\ last' = [NoCall EXCEPT !.op = "cap_stake", !.stake = raw_stake,
                                      !.game_id = game_id, !.team = team,
                                      !.league = league, !.ret = r.ret,
                                      !.pre_total = risk.total_daily_risk]
    /\ UNCHANGED loopVars

NextRisk ==
    \/ CallUpdateFromPositions
    \/ CallCanTakeTrade
    \/ CallCapStake

SpecRisk == InitRisk /\ [][NextRisk]_vars

(***************************************************************************)
(* SpecStrategy: the functions of strategy.py applied to drawn arguments.  *)
(* `last` holds the call: its arguments and, once done, its result.        *)
(***************************************************************************)
Probs == {RZero, Rat(3, 10), Rat(1, 2), Rat(7, 10), ROne}

KellyFactors == {Rat(-1, 4), RZero, Rat(1, 4), ROne}

Confidences == {"HIGH", "MEDIUM", "LOW", "None", "high"}

ResearchProbs == {None, Rat(-1, 10), RZero, Rat(1, 2), Rat(9, 10), ROne, Rat(6, 5)}

AmericanOdds == {-200, -150, -110, -100, -50, 1, 100, 130, 250}

RawProbs == {american_to_implied_prob(odds) : odds \in AmericanOdds} \cup {RZero}

NoStrategyCall ==
    [op |-> "none", done |-> FALSE, fair_prob |-> RZero, market_prob |-> RZero,
     kelly_factor |-> RZero, research_prob |-> None, research_confidence |-> "None",
     p_a_raw |-> RZero, p_b_raw |-> RZero, ref_odds |-> EmptyDict,
     exc |-> "", ret |-> RZero, pair |-> <<RZero, RZero>>, fair_probs |-> EmptyDict]

KellyFractionArgs ==
    {[NoStrategyCall EXCEPT !.op = "kelly_fraction", !.fair_prob = f, !.market_prob = m,
                            !.kelly_factor = k, !.research_confidence = c] :
        f \in Probs, m \in Probs, k \in KellyFactors, c \in Confidences}

CalcEdgeArgs ==
    {[NoStrategyCall EXCEPT !.op = "calc_edge", !.fair_prob = f, !.market_prob = m,
                            !.research_prob = r, !.research_confidence = c] :
        f \in Probs, m \in Probs, r \in ResearchProbs, c \in Confidences}

RemoveVigArgs ==
    {[NoStrategyCall EXCEPT !.op = "remove_vig", !.p_a_raw = a, !.p_b_raw = b] :
        a \in RawProbs, b \in RawProbs}

ComputeFairProbsArgs ==
    {[NoStrategyCall EXCEPT !.op = "compute_fair_probs", !.ref_odds = d] :
        d \in {[g \in gs |-> ReferenceOdds(g, IF g = "g1" THEN a ELSE b,
                                           IF g = "g1" THEN b ELSE a, "the-odds-api")] :
                  gs \in {{"g1"}, {"g1", "g2"}}, a \in AmericanOdds, b \in AmericanOdds}}

InitStrategy ==
    /\ risk = RiskEngine
    /\ last \in KellyFractionArgs \cup CalcEdgeArgs \cup RemoveVigArgs \cup ComputeFairProbsArgs
    /\ config = [mode |-> "SHADOW", use_real_api |-> FALSE, odds_api_key |-> TRUE]
    /\ IterationStart

CallKellyFraction ==
    /\ last.op = "kelly_fraction" /\ ~last.done
    /\ LET r == kelly_fraction(last.fair_prob, last.market_prob, last.kelly_factor,
                               last.research_confidence)
       IN  last' = [last EXCEPT !.done = TRUE, !.exc = r.exc, !.ret = r.ret]
    /\ UNCHANGED <<risk, loopVars>>

CallCalcEdge ==
    /\ last.op = "calc_edge" /\ ~last.done
    /\ last' = [last EXCEPT !.done = TRUE,
                            !.ret = calc_edge(last.fair_prob, last.market_prob,
                                              last.research_prob, last.research_confidence)]
    /\ UNCHANGED <<risk, loopVars>>

CallRemoveVig ==
    /\ last.op = "remove_vig" /\ ~last.done
    /\ last' = [last EXCEPT !.done = TRUE, !.pair = remove_vig(last.p_a_raw, last.p_b_raw)]
    /\ UNCHANGED <<risk, loopVars>>

CallComputeFairProbs ==
    /\ last.op = "compute_fair_probs" /\ ~last.done
    /\ last' = [last EXCEPT !.done = TRUE, !.fair_probs = compute_fair_probs(last.ref_odds)]
    /\ UNCHANGED <<risk, loopVars>>

NextStrategy ==
    \/ CallKellyFraction
    \/ CallCalcEdge
    \/ CallRemoveVig
    \/ CallComputeFairProbs

SpecStrategy == InitStrategy /\ [][NextStrategy]_vars

(***************************************************************************)
(* SpecExecution: execute_trade applied to drawn arguments.  `last` holds  *)
(* the call: its arguments and, once done, its result.                     *)
(***************************************************************************)
ExecutionStakes == {Rat(-1, 1), RZero, Rat(1, 5), ROne, Rat(2, 1), Rat(3, 1)}

ExecutionPrices == {Rat(30, 100), Rat(50, 100), Rat(99, 100), ROne}

ExecutionModes == {"SHADOW", "LIVE", "PAPER"}

ExecuteTradeArgs ==
    {[op |-> "execute_trade", done |-> FALSE,
      market |-> Market(<<"KXNBAGAME", "1">>, <<Lakers, Warriors>>, "g1", "NBA", Lakers,
                        p, 5000, Rat(2, 100), 120, FALSE),
      stake |-> st, kalshi_price |-> p, fair_prob |-> Rat(60, 100), edge |-> RSub(Rat(60, 100), p),
      mode |-> mo, http_ok |-> ok, trade |-> NoTrade, calls |-> <<>>, sent |-> <<>>] :
        st \in ExecutionStakes, p \in ExecutionPrices, mo \in ExecutionModes, ok \in BOOLEAN}

InitExecution ==
    /\ risk = RiskEngine
    /\ last \in ExecuteTradeArgs
    /\ config = [mode |-> "SHADOW", use_real_api |-> FALSE, odds_api_key |-> TRUE]
    /\ IterationStart

CallExecuteTrade ==
    /\ last.op = "execute_trade" /\ ~last.done
    /\ LET r == execute_trade(last.market, last.stake, last.kalshi_price, last.fair_prob,
                              last.edge, last.mode, last.http_ok)
       IN  last' = [last EXCEPT !.done = TRUE, !.trade = r.trade, !.calls = r.calls,
                                !.sent = r.sent]
    /\ UNCHANGED <<risk, loopVars>>

NextExecution == CallExecuteTrade

SpecExecution == InitExecution /\ [][NextExecution]_vars

(***************************************************************************)
(* SpecRounding: cap_stake followed by can_take_trade on one RiskEngine    *)
(* state, in floating point.  Init draws the configuration, the state (one *)
(* open position on game g1 / Lakers) and the raw stake; every number is a *)
(* float of MantissaBits bits.                                             *)
(***************************************************************************)
FloatBankrolls == {<<18, 1>>, <<19, 1>>, <<28, 1>>, <<36, 1>>}

FloatExposures == {RZero, <<19, 64>>, <<11, 32>>, <<15, 32>>, <<3, 4>>}

FloatStakes == {<<1, 4>>, <<1024, 1>>}

RiskConfigs ==
    { RiskConfig(Rat(2, 100), Rat(5, 100), Rat(10, 100), Rat(8, 100)),
      RiskConfig(Rat(5, 100), Rat(5, 100), Rat(10, 100), Rat(8, 100)) }

NoRoundingCall ==
    [op |-> "none", cfg |-> RiskConfig(Rat(2, 100), Rat(5, 100), Rat(10, 100), Rat(8, 100)),
     raw_stake |-> RZero, stake |-> RZero, ok |-> FALSE]

InitRounding ==
    /\ \E b \in FloatBankrolls, e \in FloatExposures :
           risk = [RiskEngine EXCEPT !.bankroll = b, !.total_daily_risk = e,
                                     !.exposure_by_game = Bump(EmptyMap, "g1", e),
                                     !.exposure_by_team = Bump(EmptyMap, Lakers, e),
                                     !.exposure_by_league = Bump(EmptyMap, "NBA", e)]
    /\ last \in {[NoRoundingCall EXCEPT !.cfg = c, !.raw_stake = r] :
                     c \in RiskConfigs, r \in FloatStakes}
    /\ config = [mode |-> "SHADOW", use_real_api |-> FALSE, odds_api_key |-> TRUE]
    /\ IterationStart

CallCapStakeFloat ==
    /\ last.op = "none"
    /\ last' = [last EXCEPT !.op = "cap_stake",
                            !.stake = cap_stake_float(last.cfg, risk, last.raw_stake,
                                                      "g1", Lakers, "NBA")]
    /\ UNCHANGED <<risk, loopVars>>

CallCanTakeTradeFloat ==
    /\ last.op = "cap_stake"
    /\ last' = [last EXCEPT !.op = "can_take_trade",
                            !.ok = can_take_trade_float(last.cfg, risk, last.stake,
                                                        "g1", Lakers, "NBA")]
    /\ UNCHANGED <<risk, loopVars>>

NextRounding ==
    \/ CallCapStakeFloat
    \/ CallCanTakeTradeFloat

SpecRounding == InitRounding /\ [][NextRounding]_vars

(***************************************************************************)
(* SpecResearch: calls of ResearchEngine.research_game while time passes.  *)
(* last.stored_at remembers when each key was cached, last.age is the age  *)
(* of the key's entry at the time of the call (-1 when there was none).    *)
(***************************************************************************)
MaxClock == 12
TickHours == 3

ResearchGames ==
    { [game_id |-> "g1", team_a |-> Lakers, team_b |-> Warriors],
      [game_id |-> "g2", team_a |-> Warriors, team_b |-> Lakers] }

ResearchResults ==
    { GameResearch(Rat(50, 100), "analysis", "MEDIUM"),
      GameResearch(Rat(65, 100), "analysis", "HIGH") }

NoResearchCall ==
    [op |-> "none", game_id |-> "", age |-> -1, fetched |-> FALSE,
     computed |-> NoGameResearch, cached |-> NoGameResearch, ret |-> NoGameResearch,
     stored_at |-> [g \in {} |-> 0]]

InitResearch ==
    /\ risk = RiskEngine
    /\ last = NoResearchCall
    /\ config = [mode |-> "SHADOW", use_real_api |-> FALSE, odds_api_key |-> TRUE]
    /\ IterationStart

CallResearchGame ==
    /\ \E game \in ResearchGames, computed \in ResearchResults :
        LET key == <<game.game_id, game.team_a, game.team_b>>
            hit == key \in DOMAIN research.cache
            r == research_game(research, game, computed)
        IN  /\ research' = r.self
            /\ last' = [op |-> "research_game", game_id |-> game.game_id,
                        age |-> IF hit THEN now - last.stored_at[game.game_id] ELSE -1,
                        fetched |-> r.fetched, computed |-> computed,
                        cached |-> IF hit THEN research.cache[key] ELSE NoGameResearch,
                        ret |-> r.ret,
                        stored_at |-> IF r.fetched
                                      THEN [g \in DOMAIN last.stored_at \cup {game.game_id} |->
                                               IF g = game.game_id THEN now
                                               ELSE last.stored_at[g]]
                                      ELSE last.stored_at]
    /\ UNCHANGED <<risk, config, pc, bankroll, positions, markets, idx, ref_odds, fair_probs,
                   game_research, evals, trades, calls, sent, error, risk_calls, now, log>>

\* time passes between two polls
Tick ==
    /\ now + TickHours <= MaxClock
    /\ now' = now + TickHours
    /\ UNCHANGED <<risk, last, config, pc, bankroll, positions, markets, idx, ref_odds,
                   fair_probs, game_research, evals, trades, calls, sent, error, risk_calls,
                   research, log>>

NextResearch ==
    \/ CallResearchGame
    \/ Tick

SpecResearch == InitResearch /\ [][NextResearch]_vars

(***************************************************************************)
(* Spec: the poll loop of runner.main.                                     *)
(***************************************************************************)
Init ==
    /\ risk = RiskEngine
    /\ last = NoCall
    /\ config \in Configs
    /\ IterationStart

\* lines 432-436: `except KeyboardInterrupt` breaks out of the loop, `except
\* Exception` logs and falls through to the sleep at lines 438-440
after_exception_fatal(exc) == "stopped"

after_exception(exc) == IF exc = "KeyboardInterrupt" THEN "stopped" ELSE "sleep"

\* lines 199-216: the account state and the RiskEngine update
GetAccountState ==
    /\ pc = "account"
    /\ \E balance_ok \in BOOLEAN, balance \in Bankrolls,
          positions_ok \in BOOLEAN, position_data \in ExchangePositions :
        LET b == get_account_balance(config.mode, config.use_real_api,
                                     Response(balance_ok, balance))
            fetched == get_positions(config.mode, Response(positions_ok, position_data))
        IN  /\ log' = log \o account_errors(config.mode, config.use_real_api,
                                              Response(balance_ok, balance),
                                              Response(positions_ok, position_data))
            /\ IF b.exc /\ config.mode # "SHADOW"
               THEN /\ pc' = after_exception("RequestException")
                    /\ error' = "RequestException"
                    /\ UNCHANGED <<risk, bankroll, positions, risk_calls>>
               ELSE LET bankroll_ == IF b.exc THEN MockBalance ELSE b.ret
                        positions_ == IF b.exc THEN <<>> ELSE fetched
                        r == rebuild_risk(risk, positions_, bankroll_)
                    IN  /\ bankroll' = bankroll_
                        /\ positions' = positions_
                        /\ risk' = r.self
                        /\ risk_calls' = risk_calls \o r.calls
                        /\ pc' = "markets"
                        /\ UNCHANGED error
    /\ UNCHANGED <<last, config, markets, idx, ref_odds, fair_probs, game_research,
                   evals, trades, calls, sent>>
    /\ UNCHANGED <<research, now>>

\* lines 218-256: markets, games, reference odds, fair probabilities, research
FetchMarkets ==
    /\ pc = "markets"
    /\ \E markets_ok \in BOOLEAN, market_data \in MarketLists, mock_odds \in MockOddsChoices :
        LET fetched == fetch_sports_markets(config.mode, config.use_real_api,
                                            Response(markets_ok, market_data))
            real_markets == SelectSeq(fetched, LAMBDA m : m.market_id[1] # "market_")
        IN  IF real_markets = <<>>
            THEN /\ pc' = "sleep"
                 /\ UNCHANGED <<markets, idx, ref_odds, fair_probs, game_research>>
            ELSE LET games == extract_games_from_markets(real_markets)
                     odds == fetch_reference_odds(config.odds_api_key, games, mock_odds)
                 IN  /\ markets' = real_markets
                     /\ ref_odds' = odds
                     /\ fair_probs' = compute_fair_probs(odds)
                     /\ game_research' = research_games(games)
                     /\ idx' = 1
                     /\ pc' = "loop"
    /\ UNCHANGED <<risk, last, config, bankroll, positions, evals, trades, calls, sent,
                   error, risk_calls>>
    /\ UNCHANGED <<research, now, log>>

\* one pass through the body of `for market in markets`
ProcessMarket ==
    /\ pc = "loop"
    /\ idx <= Len(markets)
    /\ \E http_ok \in BOOLEAN :
        LET r == process_market(markets[idx], bankroll, risk, config.mode, ref_odds,
                                fair_probs, game_research, http_ok)
            raised == r.eval.outcome \in {"TypeError", "ZeroDivisionError"}
        IN  /\ risk' = r.risk
            /\ evals' = Append(evals, r.eval)
            /\ trades' = IF r.trade.is_none THEN trades ELSE Append(trades, r.trade)
            /\ calls' = calls \o r.calls
            /\ sent' = sent \o r.sent
            /\ risk_calls' = risk_calls \o r.risk_calls
            /\ IF raised
               THEN /\ pc' = after_exception(r.eval.outcome)
                    /\ error' = r.eval.outcome
                    /\ UNCHANGED idx
               ELSE /\ idx' = idx + 1
                    /\ UNCHANGED <<pc, error>>
    /\ UNCHANGED <<last, config, bankroll, positions, markets, ref_odds, fair_probs,
                   game_research>>
    /\ UNCHANGED <<research, now, log>>

\* line 430: the loop is exhausted
FinishIteration ==
    /\ pc = "loop"
    /\ idx > Len(markets)
    /\ pc' = "sleep"
    /\ UNCHANGED <<risk, last, config, bankroll, positions, markets, idx, ref_odds,
                   fair_probs, game_research, evals, trades, calls, sent, error, risk_calls>>
    /\ UNCHANGED <<research, now, log>>

\* lines 438-440 and 194-196: sleep, then the next iteration starts
Sleep ==
    /\ pc = "sleep"
    /\ pc' = "account"
    /\ bankroll' = RZero
    /\ positions' = <<>>
    /\ markets' = <<>>
    /\ idx' = 0
    /\ ref_odds' = EmptyDict
    /\ fair_probs' = EmptyDict
    /\ game_research' = EmptyDict
    /\ evals' = <<>>
    /\ trades' = <<>>
    /\ calls' = <<>>
    /\ sent' = <<>>
    /\ error' = ""
    /\ risk_calls' = <<>>
    /\ log' = <<>>
    /\ UNCHANGED <<risk, last, config>>
    /\ UNCHANGED <<research, now>>

Next ==
    \/ GetAccountState
    \/ FetchMarkets
    \/ ProcessMarket
    \/ FinishIteration
    \/ Sleep

Spec == Init /\ [][Next]_vars

(***************************************************************************)
(* SpecRun: the poll loop with the interrupt signal.  The one fairness      *)
(* condition is that of the sequential code after a failed cycle:          *)
(* time.sleep returns and `while True` takes its next iteration.  The      *)
(* interrupt itself is never forced.                                       *)
(***************************************************************************)
\* lines 432-434: KeyboardInterrupt raised in the iteration is caught and breaks
\* the loop; raised in the sleep of line 440 it passes the `except Exception`
\* of line 442 and leaves main: the run ends either way
Interrupt ==
    /\ pc \in {"account", "markets", "loop", "sleep"}
    /\ pc' = after_exception("KeyboardInterrupt")
    /\ error' = "KeyboardInterrupt"
    /\ UNCHANGED <<risk, last, config, bankroll, positions, markets, idx, ref_odds,
                   fair_probs, game_research, evals, trades, calls, sent, risk_calls>>
    /\ UNCHANGED <<research, now, log>>

NextRun ==
    \/ Next
    \/ Interrupt

Fairness == WF_vars(Sleep)

SpecRun == Init /\ [][NextRun]_vars /\ Fairness

(***************************************************************************)
(* Properties of the RiskEngine, checked under SpecRisk.                   *)
(***************************************************************************)
CapOf(pct) == RMul(pct, risk.bankroll)

GameExposure == Lookup(risk.exposure_by_game, last.game_id)

TeamExposure == Lookup(risk.exposure_by_team, last.team)

\* C2 (as stated): the value returned by cap_stake exceeds none of the four
\* caps: the per-bet cap, the remaining daily-risk capacity, and the per-game
\* and per-team capacities taken as cap minus exposure.
C2_CapStakeWithinRawCapacities ==
    last.op = "cap_stake" =>
        /\ RLe(last.ret, CapOf(max_per_bet_pct))
        /\ RLe(last.ret, remaining_daily_risk(risk))
        /\ RLe(last.ret, RSub(CapOf(max_per_game_pct), GameExposure))
        /\ RLe(last.ret, RSub(CapOf(max_per_team_pct), TeamExposure))

\* C2 (amended): the value returned by cap_stake exceeds none of the four
\* caps, each remaining capacity floored at zero: a game or team already
\* over its cap leaves a capacity of 0 and cap_stake returns 0.
C2_CapStakeWithinFlooredCapacities ==
    last.op = "cap_stake" =>
        /\ RLe(last.ret, CapOf(max_per_bet_pct))
        /\ RLe(last.ret, RMax(RZero, RSub(CapOf(max_daily_risk_pct), risk.total_daily_risk)))
        /\ RLe(last.ret, RMax(RZero, RSub(CapOf(max_per_game_pct), GameExposure)))
        /\ RLe(last.ret, RMax(RZero, RSub(CapOf(max_per_team_pct), TeamExposure)))

\* a cap_stake call on a team that is already over its per-team cap while
\* the other three capacities are still positive
C2_Witness ==
    /\ last.op = "cap_stake"
    /\ RLt(CapOf(max_per_team_pct), TeamExposure)
    /\ RLt(GameExposure, CapOf(max_per_game_pct))
    /\ RLt(risk.total_daily_risk, CapOf(max_daily_risk_pct))
    /\ RLt(RZero, last.stake)
    /\ last.ret = RZero

C4_CanTakeTradeExactlyAboveCap ==
    last.op = "can_take_trade" =>
        (last.ok = FALSE <=>
            \/ RLt(CapOf(max_daily_risk_pct), RAdd(risk.total_daily_risk, last.stake))
            \/ RLt(CapOf(max_per_game_pct), RAdd(GameExposure, last.stake))
            \/ RLt(CapOf(max_per_team_pct), RAdd(TeamExposure, last.stake)))

\* an accepted stake that lands exactly on the per-game cap
C4_Witness ==
    /\ last.op = "can_take_trade"
    /\ last.ok
    /\ RLt(RZero, last.stake)
    /\ RAdd(GameExposure, last.stake) = CapOf(max_per_game_pct)

\* C7: an update_from_positions call that repeats the arguments of the
\* update_from_positions call right before it leaves the engine unchanged.
C7_UpdateIdempotent ==
    [][(last'.op = "update_from_positions" /\ last'.repeated) => risk' = risk]_vars

\* a repeated update with a non-empty position list
C7_Witness ==
    /\ last.op = "update_from_positions"
    /\ last.repeated
    /\ Len(last.positions) = MaxPositions
    /\ RLt(RZero, risk.total_daily_risk)

\* C8: after update_from_positions(P, B) the engine equals a fresh engine
\* given (P, B), whatever calls came before.
C8_UpdateDependsOnlyOnArguments ==
    last.op = "update_from_positions" =>
        LET fresh == update_from_positions(RiskEngine, last.positions, last.bankroll)
        IN  /\ risk.bankroll = fresh.bankroll
            /\ risk.total_daily_risk = fresh.total_daily_risk
            /\ \A g \in GameIds :
                   Lookup(risk.exposure_by_game, g) = Lookup(fresh.exposure_by_game, g)
            /\ \A t \in Teams :
                   Lookup(risk.exposure_by_team, t) = Lookup(fresh.exposure_by_team, t)
            /\ \A l \in Leagues :
                   Lookup(risk.exposure_by_league, l) = Lookup(fresh.exposure_by_league, l)

\* an update that replaced an earlier snapshot carrying a different, positive exposure
C8_Witness ==
    /\ last.op = "update_from_positions"
    /\ RLt(RZero, last.pre_total)
    /\ last.pre_total # risk.total_daily_risk
    /\ ~last.repeated

C9_c(p) ==
    IF p.max_loss[1] > 0 THEN p.max_loss
    ELSE Rat(p.quantity * p.average_price[1], p.average_price[2])

RECURSIVE C9_Sum(_)
C9_Sum(ps) == IF ps = <<>> THEN RZero ELSE RAdd(C9_c(Head(ps)), C9_Sum(Tail(ps)))

\* C9: after update_from_positions(P, B) every exposure value is the sum of the
\* contributions c of the positions with that game, team or league, and
\* total_daily_risk is the sum of c over all of P, where c = max_loss when
\* max_loss > 0 and quantity * average_price otherwise.
C9_ExposureIsSumOfContributions ==
    last.op = "update_from_positions" =>
        /\ risk.total_daily_risk = C9_Sum(last.positions)
        /\ \A g \in GameIds :
               Lookup(risk.exposure_by_game, g)
                   = C9_Sum(SelectSeq(last.positions, LAMBDA p : p.game_id = g))
        /\ \A t \in Teams :
               Lookup(risk.exposure_by_team, t)
                   = C9_Sum(SelectSeq(last.positions, LAMBDA p : p.team = t))
        /\ \A l \in Leagues :
               Lookup(risk.exposure_by_league, l)
                   = C9_Sum(SelectSeq(last.positions, LAMBDA p : p.league = l))

\* a snapshot holding one position with a positive max_loss and one without
C9_Witness ==
    /\ last.op = "update_from_positions"
    /\ \E i, j \in 1..Len(last.positions) :
           /\ last.positions[i].max_loss[1] > 0
           /\ last.positions[i].max_loss
                  # RMul(Rat(last.positions[i].quantity, 1), last.positions[i].average_price)
           /\ last.positions[j].max_loss[1] <= 0

\* league exposure maps an engine may hold
LeagueExposures ==
    {EmptyMap, [l \in {"NBA"} |-> Rat(1000, 1)], [l \in Leagues |-> Rat(1000, 1)]}

\* C20: the result of cap_stake and of can_take_trade is the same for every
\* league argument and in every engine that agrees with this one on
\* bankroll, total_daily_risk, exposure_by_game and exposure_by_team but
\* holds another exposure_by_league.
C20_LeagueNotCapped ==
    \A league2 \in Leagues, by_league \in LeagueExposures :
        LET other == [risk EXCEPT !.exposure_by_league = by_league]
        IN  /\ last.op = "cap_stake" =>
                   cap_stake(other, last.stake, last.game_id, last.team, league2).ret
                       = last.ret
            /\ last.op = "can_take_trade" =>
                   can_take_trade(other, last.stake, last.game_id, last.team, league2).ret
                       = last.ok

\* a positive stake granted in a league that already carries exposure
C20_Witness ==
    /\ last.op = "cap_stake"
    /\ RLt(RZero, last.ret)
    /\ RLt(RZero, Lookup(risk.exposure_by_league, last.league))

(***************************************************************************)
(* Properties of the poll loop, checked under Spec.                        *)
(***************************************************************************)
\* the trades of this iteration that were executed: logged in SHADOW,
\* accepted by the exchange in LIVE
ExecutedTrades == SelectSeq(trades, LAMBDA t : t.mode = "SHADOW" \/ t.order_id # "None")

RECURSIVE SumStakes(_)
SumStakes(ts) == IF ts = <<>> THEN RZero ELSE RAdd(Head(ts).stake, SumStakes(Tail(ts)))

SnapshotWithinCaps ==
    /\ RLe(risk.total_daily_risk, CapOf(max_daily_risk_pct))
    /\ \A g \in DOMAIN risk.exposure_by_game :
           RLe(risk.exposure_by_game[g], CapOf(max_per_game_pct))
    /\ \A t \in DOMAIN risk.exposure_by_team :
           RLe(risk.exposure_by_team[t], CapOf(max_per_team_pct))

\* C1: within one poll cycle, given a position snapshot within the caps, the
\* snapshot exposure plus the stakes executed so far stays within the
\* per-game cap for every game, within the per-team cap for every team and
\* within the daily cap in total.
C1_RiskCapsNeverExceeded ==
    (pc \in {"loop", "sleep"} /\ SnapshotWithinCaps) =>
        /\ \A i \in DOMAIN ExecutedTrades :
               LET g == ExecutedTrades[i].game_id
               IN  RLe(RAdd(Lookup(risk.exposure_by_game, g),
                            SumStakes(SelectSeq(ExecutedTrades, LAMBDA t : t.game_id = g))),
                       CapOf(max_per_game_pct))
        /\ \A i \in DOMAIN ExecutedTrades :
               LET tm == ExecutedTrades[i].team
               IN  RLe(RAdd(Lookup(risk.exposure_by_team, tm),
                            SumStakes(SelectSeq(ExecutedTrades, LAMBDA t : t.team = tm))),
                       CapOf(max_per_team_pct))
        /\ RLe(RAdd(risk.total_daily_risk, SumStakes(ExecutedTrades)),
               CapOf(max_daily_risk_pct))

\* C5: for every market that reaches sizing, the combined probability handed
\* to kelly_fraction and execute_trade is the blend calc_edge used:
\* edge = combined_prob - kalshi_price.
C5_BlendCallSitesConsistent ==
    \A i \in DOMAIN evals :
        evals[i].combined_prob # None =>
            evals[i].edge = RSub(evals[i].combined_prob, markets[i].best_yes_price)

\* C6: when the evaluation of a market raises, the remaining markets of the
\* cycle are still evaluated: the iteration ends with every market evaluated.
C6_RemainingMarketsEvaluated ==
    (pc = "sleep" /\ error \in {"TypeError", "ZeroDivisionError"}) =>
        Len(evals) = Len(markets)

\* C10: in SHADOW mode execute_trade never calls place_yes_order and no
\* order request is sent to the exchange, in any iteration.
C10_ShadowPlacesNoOrder ==
    config.mode = "SHADOW" => calls = <<>> /\ sent = <<>>

\* an iteration in SHADOW mode that has executed a shadow trade
C10_Witness ==
    /\ config.mode = "SHADOW"
    /\ trades # <<>>
    /\ trades[1].mode = "SHADOW"
    /\ trades[1].quantity > 0

\* the sizing decision of an evaluated market, and of a trade
EvalDecision(e) ==
    [outcome |-> e.outcome, edge |-> e.edge, combined_prob |-> e.combined_prob,
     stake |-> e.stake]

TradeDecision(t) ==
    [market_id |-> t.market_id, stake |-> t.stake, fair_prob |-> t.fair_prob,
     edge |-> t.edge, quantity |-> t.quantity, limit_price |-> t.limit_price]

Decisions(es, ts) ==
    [evals |-> [i \in DOMAIN es |-> EvalDecision(es[i])],
     trades |-> [i \in DOMAIN ts |-> TradeDecision(ts[i])]]

\* the decisions of a LIVE cycle run on the same balance, markets, odds and
\* research as the current cycle, the exchange holding position_data
LiveDecisions(position_data) ==
    LET live_positions == get_positions("LIVE", Response(TRUE, position_data))
        live_risk == rebuild_risk(RiskEngine, live_positions, bankroll).self
        live == run_markets(markets, 1, bankroll, live_risk, "LIVE", ref_odds, fair_probs,
                            game_research)
    IN  Decisions(live.evals, live.trades)

\* C11: a finished SHADOW cycle whose balance came from the exchange made,
\* for every set of open positions the exchange may hold, the decisions a
\* LIVE cycle makes on the same account state, markets, odds and research:
\* the same markets selected, the same stake, blended probability, edge,
\* quantity and limit price.
C11_ModeDoesNotAlterSizing ==
    (pc = "sleep" /\ error = "" /\ config.mode = "SHADOW" /\ config.use_real_api
        /\ bankroll \in Bankrolls /\ markets # <<>>) =>
        \A position_data \in ExchangePositions :
            LiveDecisions(position_data) = Decisions(evals, trades)

\* C12: execute_trade is called for no market whose game's reference odds
\* have source "mock".
C12_NoTradeOnMockOdds ==
    \A i \in DOMAIN evals :
        evals[i].executed # None =>
            \/ markets[i].game_id \notin DOMAIN ref_odds
            \/ ref_odds[markets[i].game_id].source # "mock"

\* a cycle on placeholder odds that skipped an eligible market
C12_Witness ==
    /\ pc = "sleep"
    /\ \E i \in DOMAIN evals :
           /\ evals[i].outcome = "mock_odds"
           /\ ref_odds[markets[i].game_id].source = "mock"
           /\ markets[i].best_yes_price = Rat(30, 100)

\* C13: every cap_stake and can_take_trade call of a cycle is preceded, in
\* the same cycle, by an update_from_positions call with the positions and
\* the bankroll of that cycle's account state.
C13_RiskRebuiltBeforeEvaluation ==
    \A j \in DOMAIN risk_calls :
        risk_calls[j].op \in {"cap_stake", "can_take_trade"} =>
            \E k \in 1..(j - 1) :
                /\ risk_calls[k].op = "update_from_positions"
                /\ risk_calls[k].positions = positions
                /\ risk_calls[k].bankroll = bankroll

\* a LIVE cycle with open positions in which a market was sized and checked
C13_Witness ==
    /\ pc = "sleep"
    /\ positions # <<>>
    /\ \E j, k \in DOMAIN risk_calls :
           /\ risk_calls[j].op = "cap_stake"
           /\ risk_calls[k].op = "can_take_trade"

\* C14: execute_trade is called for a market only if its edge was >= the
\* effective threshold, then cap_stake returned a stake > 0, then
\* can_take_trade returned true for that stake, and it is handed exactly
\* the stake cap_stake returned; a market for which execute_trade is not
\* called leaves no trade and no order.
C14_GatesClearedInOrder ==
    /\ \A i \in DOMAIN evals :
           evals[i].executed # None =>
               /\ ~RLt(evals[i].edge, evals[i].effective_threshold)
               /\ \E j \in DOMAIN risk_calls :
                      /\ j + 1 \in DOMAIN risk_calls
                      /\ risk_calls[j].op = "cap_stake"
                      /\ risk_calls[j].market_id = markets[i].market_id
                      /\ RLt(RZero, risk_calls[j].ret)
                      /\ risk_calls[j + 1].op = "can_take_trade"
                      /\ risk_calls[j + 1].market_id = markets[i].market_id
                      /\ risk_calls[j + 1].stake = risk_calls[j].ret
                      /\ risk_calls[j + 1].ok
                      /\ evals[i].executed = risk_calls[j].ret
    /\ \A n \in DOMAIN trades :
           \E i \in DOMAIN evals :
               /\ markets[i].market_id = trades[n].market_id
               /\ evals[i].executed = trades[n].stake
    /\ \A n \in DOMAIN calls :
           \E i \in DOMAIN evals :
               /\ markets[i].market_id = calls[n].market_id
               /\ evals[i].executed # None

\* a cycle that executed one market and skipped another at the edge gate
C14_Witness ==
    /\ pc = "sleep"
    /\ \E i, k \in DOMAIN evals :
           /\ evals[i].outcome = "traded"
           /\ evals[k].outcome = "low_edge"
           /\ RLt(RZero, evals[k].edge)

(***************************************************************************)
(* Properties of the strategy functions, checked under SpecStrategy.       *)
(***************************************************************************)
C15_Multiplier(confidence) ==
    CASE confidence = "HIGH" -> Rat(1, 1)
      [] confidence = "MEDIUM" -> Rat(9, 10)
      [] confidence = "LOW" -> Rat(7, 10)
      [] OTHER -> Rat(8, 10)

\* C15: kelly_fraction(fair, market, k, confidence) returns 0 whenever
\* fair <= market; otherwise it returns
\* max(0, ((fair - market) / (1 - market)) * k * m), m being 1.0 for HIGH,
\* 0.9 for MEDIUM, 0.7 for LOW and 0.8 for any other confidence.
C15_KellyFractionFormula ==
    (last.op = "kelly_fraction" /\ last.done) =>
        /\ last.exc = ""
        /\ IF RLe(last.fair_prob, last.market_prob)
           THEN last.ret = RZero
           ELSE last.ret =
                    RMax(RZero,
                         RMul(RMul(RDiv(RSub(last.fair_prob, last.market_prob),
                                        RSub(ROne, last.market_prob)),
                                   last.kelly_factor),
                              C15_Multiplier(last.research_confidence)))

\* a positive Kelly fraction computed with an unrecognised confidence
C15_Witness ==
    /\ last.op = "kelly_fraction" /\ last.done
    /\ last.research_confidence = "high"
    /\ RLt(last.market_prob, last.fair_prob)
    /\ RLt(RZero, last.ret)

\* C16: kelly_fraction is non-decreasing in fair_prob: for the market_price,
\* kelly_factor and confidence of the call, every fair2 >= fair_prob gives a
\* result >= the result of the call.
C16_KellyFractionMonotone ==
    (last.op = "kelly_fraction" /\ last.done /\ last.exc = "") =>
        \A fair2 \in Probs :
            RLe(last.fair_prob, fair2) =>
                LET r2 == kelly_fraction(fair2, last.market_prob, last.kelly_factor,
                                         last.research_confidence)
                IN  r2.exc = "" /\ RLe(last.ret, r2.ret)

\* a call at fair_prob = market_price below a fair2 with a positive result
C16_Witness ==
    /\ last.op = "kelly_fraction" /\ last.done
    /\ last.fair_prob = last.market_prob
    /\ \E fair2 \in Probs :
           /\ RLt(last.fair_prob, fair2)
           /\ RLt(last.ret, kelly_fraction(fair2, last.market_prob, last.kelly_factor,
                                           last.research_confidence).ret)

C18_DeVigSumsToOne ==
    /\ (last.op = "remove_vig" /\ last.done) =>
           /\ RAdd(last.pair[1], last.pair[2]) = ROne
           /\ RAdd(last.p_a_raw, last.p_b_raw) = RZero =>
                  last.pair = <<Rat(1, 2), Rat(1, 2)>>
    /\ (last.op = "compute_fair_probs" /\ last.done) =>
           /\ DOMAIN last.fair_probs = DOMAIN last.ref_odds
           /\ \A g \in DOMAIN last.fair_probs :
                  RAdd(last.fair_probs[g].team_a_fair_prob,
                       last.fair_probs[g].team_b_fair_prob) = ROne

\* odds with a vig: the raw probabilities sum to more than 1
C18_Witness ==
    /\ last.op = "compute_fair_probs" /\ last.done
    /\ \E g \in DOMAIN last.ref_odds :
           /\ last.ref_odds[g].team_a_american_odds = -110
           /\ last.ref_odds[g].team_b_american_odds = -110
           /\ last.fair_probs[g].team_a_fair_prob = Rat(1, 2)

C19_Weight(confidence) ==
    CASE confidence = "HIGH" -> Rat(85, 100)
      [] confidence = "MEDIUM" -> Rat(70, 100)
      [] confidence = "LOW" -> Rat(50, 100)
      [] OTHER -> Rat(70, 100)

\* C19: calc_edge(fair, price, research, confidence) is
\* w * research + (1 - w) * fair - price when research is present and
\* strictly inside (0,1), w being 0.85 for HIGH, 0.70 for MEDIUM, 0.50 for LOW
\* and 0.70 otherwise; in every other case it is fair - price.
C19_CalcEdgeFormula ==
    (last.op = "calc_edge" /\ last.done) =>
        IF last.research_prob # None /\ RLt(RZero, last.research_prob)
              /\ RLt(last.research_prob, ROne)
        THEN LET w == C19_Weight(last.research_confidence)
             IN  last.ret = RSub(RAdd(RMul(w, last.research_prob),
                                      RMul(RSub(ROne, w), last.fair_prob)),
                                 last.market_prob)
        ELSE last.ret = RSub(last.fair_prob, last.market_prob)

\* a call with research_prob = 1, on the boundary of the blend
C19_Witness ==
    /\ last.op = "calc_edge" /\ last.done
    /\ last.research_prob = ROne
    /\ last.fair_prob = Rat(1, 2)
    /\ last.ret = RSub(Rat(1, 2), last.market_prob)

(***************************************************************************)
(* Further properties of the poll loop, checked under Spec.                *)
(***************************************************************************)
C21_MinEdge(league) ==
    CASE league = "NBA" -> Rat(5, 100)
      [] league = "NFL" -> Rat(6, 100)
      [] league = "EPL" -> Rat(8, 100)
      [] league = "UCL" -> Rat(10, 100)
      [] league = "La Liga" -> Rat(8, 100)
      [] league = "NHL" -> Rat(7, 100)
      [] league = "MLB" -> Rat(7, 100)
      [] OTHER -> Rat(7, 100)

\* C21: execute_trade is called for a market only when its edge is >= the
\* minimum edge of its league: the league table's value for a league in the
\* table, config.edge_threshold (0.07) for every other league.
C21_NoTradeBelowMinEdge ==
    \A i \in DOMAIN evals :
        evals[i].executed # None =>
            RLe(C21_MinEdge(markets[i].league), evals[i].edge)

\* a cycle that traded a market of a league in the table and one of a
\* league outside it
C21_Witness ==
    /\ pc = "sleep"
    /\ \E i, k \in DOMAIN evals :
           /\ evals[i].outcome = "traded" /\ markets[i].league = "NBA"
           /\ evals[k].outcome = "traded" /\ markets[k].league = "NCAAB"

(***************************************************************************)
(* Properties of the run, checked under SpecRun.                           *)
(***************************************************************************)
C22_Failed == error \notin {"", "KeyboardInterrupt"}

\* C22: a cycle that raised an exception is followed by the sleep and the
\* start of the next cycle unless the interrupt signal arrives, and the loop
\* is left only on the interrupt signal.
C22_FailingCycleDoesNotAbort ==
    /\ [](pc = "stopped" => error = "KeyboardInterrupt")
    /\ C22_Failed ~> (pc = "account" \/ error = "KeyboardInterrupt")

C22_Witness ==
    /\ pc = "sleep"
    /\ error = "TypeError"
    /\ evals # <<>>

(***************************************************************************)
(* Properties of order execution, checked under Spec.                      *)
(***************************************************************************)
\* C23: execute_trade returns a Trade only when the trade was executed: every
\* LIVE Trade the loop received and counted carries the id of an order the
\* exchange accepted (a failed placement gives None, not a Trade).
C23_TradeOnlyIfExecuted ==
    \A i \in DOMAIN trades :
        trades[i].mode = "LIVE" => trades[i].order_id # "None"

(***************************************************************************)
(* Properties of the research cache, checked under SpecResearch.           *)
(***************************************************************************)
\* C24: a research_game call that finds an entry younger than cache_ttl
\* returns it without recomputing, and a call that finds an entry older than
\* cache_ttl recomputes the research instead of returning the stale entry.
C24_CacheHonoursTtl ==
    (last.op = "research_game" /\ last.age >= 0) =>
        /\ last.age < cache_ttl => (~last.fetched /\ last.ret = last.cached)
        /\ last.age > cache_ttl => last.fetched

(***************************************************************************)
(* Properties of the RiskEngine in floating point, checked under           *)
(* SpecRounding.                                                           *)
(***************************************************************************)
\* C25: a positive stake returned by cap_stake is accepted by can_take_trade
\* called with the same game, team and league on the same engine state.
C25_CappedStakeIsAccepted ==
    (last.op = "can_take_trade" /\ RLt(RZero, last.stake)) => last.ok

(***************************************************************************)
(* Properties of side selection, checked under Spec.                       *)
(***************************************************************************)
C26_SelectsA(team, team_a) == in(lower(team), lower(team_a)) \/ in(lower(team_a), lower(team))

C26_SelectsB(team, team_a, team_b) ==
    /\ ~C26_SelectsA(team, team_a)
    /\ in(lower(team), lower(team_b)) \/ in(lower(team_b), lower(team))

\* C26: for every evaluated market with research, when get_fair_prob_for_team
\* takes team A's fair probability the research probability used is the
\* game's research_probability unchanged, and when it takes team B's the
\* research probability used is 1 - research_probability.
C26_SidesAgree ==
    \A i \in DOMAIN evals :
        LET m == map_market_to_game_and_team(markets[i])
        IN  evals[i].research_prob # None =>
                LET p == game_research[m[1]].research_probability
                IN  /\ C26_SelectsA(m[2], m[3]) => evals[i].research_prob = p
                    /\ C26_SelectsB(m[2], m[3], m[4]) => evals[i].research_prob = RSub(ROne, p)

(***************************************************************************)
(* Properties of the account-state fetch, checked under Spec.              *)
(***************************************************************************)
\* C27: in LIVE mode a cycle in which the balance fetch or the positions
\* fetch failed calls execute_trade for no market and places no order.
C27_NoOrderAfterFailedFetch ==
    (config.mode = "LIVE" /\ log # <<>>) =>
        /\ \A i \in DOMAIN evals : evals[i].outcome \notin {"traded", "not_executed"}
        /\ trades = <<>>
        /\ calls = <<>>

(***************************************************************************)
(* Frame of the RiskEngine queries, checked under SpecRisk.                *)
(***************************************************************************)
\* C28: a can_take_trade or cap_stake call (cap_stake calls
\* remaining_daily_risk) leaves bankroll, positions, total_daily_risk and the
\* three exposure maps, key sets included, as they were.
C28_QueriesLeaveEngineUntouched ==
    [][last'.op \in {"can_take_trade", "cap_stake"} => risk' = risk]_vars

(***************************************************************************)
(* Sign of the exposure, checked under Spec.                               *)
(***************************************************************************)
C29_NonNegative(m) == \A k \in DOMAIN m : RLe(RZero, m[k])

\* C29: after update_from_positions, whatever the positions, total_daily_risk
\* and every value of the by-game, by-team and by-league maps are >= 0.
C29_ExposureNeverNegative ==
    /\ RLe(RZero, risk.total_daily_risk)
    /\ C29_NonNegative(risk.exposure_by_game)
    /\ C29_NonNegative(risk.exposure_by_team)
    /\ C29_NonNegative(risk.exposure_by_league)

(***************************************************************************)
(* Properties of execute_trade, checked under SpecExecution.               *)
(***************************************************************************)
C30_LimitPrice == RMin(ROne, RAdd(last.kalshi_price, slippage_tolerance))

\* q is floor(stake / limit_price)
C30_IsFloor(q) ==
    /\ RLe(RMul(<<q, 1>>, C30_LimitPrice), last.stake)
    /\ RLt(last.stake, RMul(<<q + 1, 1>>, C30_LimitPrice))

====
